---------------------------- MODULE Spec2Model ----------------------------
(* A model of sbclassifier: the token-count stores (store.py) and the      *)
(* Classifier that trains and scores on top of them (classifier.py).        *)
(*                                                                          *)
(* Python dicts are functions whose DOMAIN is the set of keys present.      *)
(* Floats are modelled as exact rationals <<numerator, denominator>>.       *)
EXTENDS Integers, Sequences, FiniteSets, TLC

VARIABLES
    spam,       \* HeapStore.spam  : dict token -> count
    ham,        \* HeapStore.ham   : dict token -> count
    nspam,      \* HeapStore.nspam
    nham,       \* HeapStore.nham
    db,         \* SqliteStore: the rows of table tokens, token -> [spam, ham]
    hist,       \* the last two calls, most recent first (history variable)
    nops,       \* number of calls made so far
    ret,        \* outcome of the last scoring call
    max_discriminators,  \* Classifier.max_discriminators of the instance
    trainers    \* concurrent trainers: each one's call and progress

vars == <<spam, ham, nspam, nham, db, hist, nops, ret, max_discriminators, trainers>>

-----------------------------------------------------------------------------
(* Bounds *)

\* The tokens a message may hold, listed in string order.
TokenOrder == <<"buy", "viagra">>

Tokens == {TokenOrder[i] : i \in 1..Len(TokenOrder)}

\* Number of store calls in a run of SpecStore.
MaxOps == 4

\* Longest token stream handed to the Classifier, and the number of training
\* calls in a run of SpecTrain.
MaxLen == 2

MaxTrainOps == 2

\* Number of calls applied to both stores in a run of SpecEquiv.
MaxEquivOps == 3

\* Number of concurrent trainers in SpecConc.
NTrainers == 2

\* SpecScore: number of training calls before the scoring call, and the
\* largest max_discriminators an instance is configured with.
MaxScoreOps == 3

MaxDiscriminators == 2

Streams == UNION {[1..n -> Tokens] : n \in 0..MaxLen}

-----------------------------------------------------------------------------
(* Python helpers *)

EmptyDict == [k \in {} |-> 0]

\* set(tokens): the distinct tokens of a stream
set(tokens) == {tokens[i] : i \in 1..Len(tokens)}

\* dict.get(key, default)
Get(dct, key, default) == IF key \in DOMAIN dct THEN dct[key] ELSE default

-----------------------------------------------------------------------------
(* HeapStore *)

Heap_increment_forgets(dct, keys) ==
    [k \in (DOMAIN dct) \cup keys |-> IF k \in keys THEN 1 ELSE dct[k]]

\* for key in keys: dct[key] = dct.get(key, 0) + 1
Heap_increment(dct, keys) ==
    [k \in (DOMAIN dct) \cup keys |->
        IF k \in keys THEN Get(dct, k, 0) + 1 ELSE dct[k]]

\* for key in keys: if key in dct: dct[key] = dct.get(key, 0) - 1
Heap_decrement(dct, keys) ==
    [k \in DOMAIN dct |-> IF k \in keys THEN Get(dct, k, 0) - 1 ELSE dct[k]]

\* The four fields of a HeapStore.
HeapState == [spam |-> spam, ham |-> ham, nspam |-> nspam, nham |-> nham]

\* HeapStore.get_nspam_nham
Heap_get_nspam_nham(st) == <<st.nspam, st.nham>>

\* HeapStore.get_token_counts: an entry only for w in spam or in ham.
Heap_get_token_counts(st, tokens) ==
    [w \in {t \in tokens : t \in DOMAIN st.spam \/ t \in DOMAIN st.ham} |->
        <<Get(st.spam, w, 0), Get(st.ham, w, 0)>>]

\* The record of one call: what was called, with what, on which store state,
\* and how it ended ("ok" or the name of the exception raised).
CallRecord(op, tokens, stream, outcome) ==
    [op |-> op, tokens |-> tokens, stream |-> stream,
     pre |-> HeapState, outcome |-> outcome]

Push(h, r) == IF h = <<>> THEN <<r>> ELSE <<r, h[1]>>

HeapStore_add_spam_no_total(tokens) ==
    /\ spam' = Heap_increment(spam, tokens)
    /\ UNCHANGED <<nspam, ham, nham>>

HeapStore_add_spam(tokens) ==
    /\ spam' = Heap_increment(spam, tokens)
    /\ nspam' = nspam + 1
    /\ UNCHANGED <<ham, nham>>

HeapStore_add_ham(tokens) ==
    /\ ham' = Heap_increment(ham, tokens)
    /\ nham' = nham + 1
    /\ UNCHANGED <<spam, nspam>>

HeapStore_remove_spam(tokens) ==
    /\ spam' = Heap_decrement(spam, tokens)
    /\ nspam' = nspam - 1
    /\ UNCHANGED <<ham, nham>>

HeapStore_remove_ham(tokens) ==
    /\ ham' = Heap_decrement(ham, tokens)
    /\ nham' = nham - 1
    /\ UNCHANGED <<spam, nspam>>

-----------------------------------------------------------------------------
(* SpecStore: a client calling the HeapStore directly with token sets. *)

StoreCall(op, tokens) ==
    /\ nops < MaxOps
    /\ nops' = nops + 1
    /\ hist' = Push(hist, CallRecord(op, tokens, <<>>, "ok"))
    /\ UNCHANGED <<db, ret, max_discriminators, trainers>>

AddSpam == \E T \in SUBSET Tokens : HeapStore_add_spam(T) /\ StoreCall("add_spam", T)

AddHam == \E T \in SUBSET Tokens : HeapStore_add_ham(T) /\ StoreCall("add_ham", T)

RemoveSpam == \E T \in SUBSET Tokens : HeapStore_remove_spam(T) /\ StoreCall("remove_spam", T)

RemoveHam == \E T \in SUBSET Tokens : HeapStore_remove_ham(T) /\ StoreCall("remove_ham", T)

\* HeapStore.__init__
HeapInit ==
    /\ spam = EmptyDict
    /\ ham = EmptyDict
    /\ nspam = 0
    /\ nham = 0

NoRet == [op |-> "none"]

InitStore ==
    /\ HeapInit
    /\ db = EmptyDict
    /\ hist = <<>>
    /\ nops = 0
    /\ ret = NoRet
    /\ max_discriminators = 150
    /\ trainers = <<>>

NextStore == AddSpam \/ AddHam \/ RemoveSpam \/ RemoveHam

SpecStore == InitStore /\ [][NextStore]_vars

-----------------------------------------------------------------------------
(* Claims about the HeapStore *)

spamcount(st, t) == Get(st.spam, t, 0)

hamcount(st, t) == Get(st.ham, t, 0)

\* C1: after any sequence of add_spam, add_ham, remove_spam and remove_ham
\* calls on the HeapStore, nspam >= 0, nham >= 0 and every token has
\* 0 <= spamcount <= nspam and 0 <= hamcount <= nham.
C1_CountInvariant ==
    /\ nspam >= 0
    /\ nham >= 0
    /\ \A t \in Tokens :
        /\ 0 <= spamcount(HeapState, t) /\ spamcount(HeapState, t) <= nspam
        /\ 0 <= hamcount(HeapState, t) /\ hamcount(HeapState, t) <= nham

\* The last two calls were op1(T) and then op2(T) for the same T.
RoundTrip(op1, op2) ==
    /\ Len(hist) = 2
    /\ hist[2].op = op1
    /\ hist[1].op = op2
    /\ hist[1].tokens = hist[2].tokens

IsRoundTrip == RoundTrip("add_spam", "remove_spam") \/ RoundTrip("add_ham", "remove_ham")

SameCounts(a, b) ==
    /\ a.nspam = b.nspam
    /\ a.nham = b.nham
    /\ \A t \in Tokens : spamcount(a, t) = spamcount(b, t) /\ hamcount(a, t) = hamcount(b, t)

Entries(st) == DOMAIN Heap_get_token_counts(st, Tokens)

\* C2 as stated: add_spam(T) then remove_spam(T) (add_ham(T) then
\* remove_ham(T)) restores nspam, nham, every token's counts and the set of
\* tokens for which get_token_counts returns an entry.
C2_RoundTripExact ==
    IsRoundTrip =>
        /\ SameCounts(HeapState, hist[2].pre)
        /\ Entries(HeapState) = Entries(hist[2].pre)

\* C2 amended: the round trip restores nspam, nham and every token's spamcount
\* and hamcount (an absent record reading as 0); get_token_counts returns an
\* entry for the tokens that had one before and for every token of T.
C2_RoundTripCounts ==
    IsRoundTrip =>
        /\ SameCounts(HeapState, hist[2].pre)
        /\ Entries(HeapState) = Entries(hist[2].pre) \cup hist[1].tokens

\* A round trip on a trained store, with a token that had no record before.
C2_Witness ==
    /\ IsRoundTrip
    /\ hist[2].pre.nspam + hist[2].pre.nham > 0
    /\ Entries(hist[2].pre) # {}
    /\ hist[1].tokens \ Entries(hist[2].pre) # {}
    /\ hist[1].tokens \cap Entries(hist[2].pre) # {}

\* C10: remove_spam(tokens) (remove_ham) ends with an error whenever some
\* token of the set has no record or has spamcount (hamcount) zero.
C10_RemoveReportsError ==
    \A i \in 1..Len(hist) :
        /\ (hist[i].op = "remove_spam"
              /\ \E t \in hist[i].tokens :
                    t \notin DOMAIN hist[i].pre.spam \/ hist[i].pre.spam[t] = 0)
            => hist[i].outcome # "ok"
        /\ (hist[i].op = "remove_ham"
              /\ \E t \in hist[i].tokens :
                    t \notin DOMAIN hist[i].pre.ham \/ hist[i].pre.ham[t] = 0)
            => hist[i].outcome # "ok"

-----------------------------------------------------------------------------
(* SpecTrain: training through the Classifier, which hands the store the   *)
(* set of the stream's tokens.                                              *)

TrainCall(op, stream) ==
    /\ nops < MaxTrainOps
    /\ nops' = nops + 1
    /\ hist' = Push(hist, CallRecord(op, set(stream), stream, "ok"))
    /\ UNCHANGED <<db, ret, max_discriminators, trainers>>

Classifier_add_spam ==
    \E tokens \in Streams : HeapStore_add_spam(set(tokens)) /\ TrainCall("c_add_spam", tokens)

Classifier_add_ham ==
    \E tokens \in Streams : HeapStore_add_ham(set(tokens)) /\ TrainCall("c_add_ham", tokens)

Classifier_remove_spam ==
    \E tokens \in Streams : HeapStore_remove_spam(set(tokens)) /\ TrainCall("c_remove_spam", tokens)

Classifier_remove_ham ==
    \E tokens \in Streams : HeapStore_remove_ham(set(tokens)) /\ TrainCall("c_remove_ham", tokens)

NextTrain ==
    Classifier_add_spam \/ Classifier_add_ham \/ Classifier_remove_spam \/ Classifier_remove_ham

SpecTrain == InitStore /\ [][NextTrain]_vars

\* 1 if the token occurs in the stream, else 0
Present(t, stream) == IF \E i \in 1..Len(stream) : stream[i] = t THEN 1 ELSE 0

\* Store state `now` is `before` with k more spam messages holding `stream`.
SpamAdded(now, before, stream, k) ==
    /\ now.nspam = before.nspam + k
    /\ now.nham = before.nham
    /\ now.ham = before.ham
    /\ \A t \in Tokens : spamcount(now, t) = spamcount(before, t) + k * Present(t, stream)

HamAdded(now, before, stream, k) ==
    /\ now.nham = before.nham + k
    /\ now.nspam = before.nspam
    /\ now.spam = before.spam
    /\ \A t \in Tokens : hamcount(now, t) = hamcount(before, t) + k * Present(t, stream)

Twice(op) ==
    /\ Len(hist) = 2
    /\ hist[1].op = op
    /\ hist[2].op = op
    /\ hist[1].stream = hist[2].stream

\* C3: Classifier.add_spam(tokens) adds exactly 1 to the spamcount of each
\* distinct token of the stream and to nspam, and leaves nham, every hamcount
\* and every other spamcount unchanged; two calls with the same stream add 2.
\* add_ham is symmetric.
C3_AddCountsPresence ==
    /\ (hist # <<>> /\ hist[1].op = "c_add_spam")
          => SpamAdded(HeapState, hist[1].pre, hist[1].stream, 1)
    /\ (hist # <<>> /\ hist[1].op = "c_add_ham")
          => HamAdded(HeapState, hist[1].pre, hist[1].stream, 1)
    /\ Twice("c_add_spam") => SpamAdded(HeapState, hist[2].pre, hist[1].stream, 2)
    /\ Twice("c_add_ham") => HamAdded(HeapState, hist[2].pre, hist[1].stream, 2)

\* The same stream, with a repeated token, trained as spam twice in a row.
C3_Witness ==
    /\ Twice("c_add_spam")
    /\ Len(hist[1].stream) > Cardinality(set(hist[1].stream))
    /\ \E t \in Tokens : spamcount(HeapState, t) = 2

-----------------------------------------------------------------------------
(* SqliteStore: db is the table tokens(token PRIMARY KEY, spam, ham). *)

DOC_COUNT_TOKEN == " $DOC_COUNT$ "

Row(s, h) == [spam |-> s, ham |-> h]

Max(a, b) == IF a >= b THEN a ELSE b

Sqlite_upsert_row_replaces(d, t, s, h) ==
    [k \in (DOMAIN d) \cup {t} |-> IF k = t THEN Row(s, h) ELSE d[k]]

\* One statement of _upsert: INSERT ... VALUES (t, s, h)
\* ON CONFLICT(token) DO UPDATE SET spam = spam + s, ham = ham + h
Sqlite_upsert_row(d, t, s, h) ==
    [k \in (DOMAIN d) \cup {t} |->
        IF k # t THEN d[k]
        ELSE IF t \in DOMAIN d THEN Row(d[t].spam + s, d[t].ham + h)
        ELSE Row(s, h)]

\* SqliteStore._upsert: executemany runs the statement once per token.
RECURSIVE Sqlite_upsert(_, _, _, _)
Sqlite_upsert(d, tokens, s, h) ==
    IF tokens = {} THEN d
    ELSE LET t == CHOOSE x \in tokens : TRUE
         IN Sqlite_upsert(Sqlite_upsert_row(d, t, s, h), tokens \ {t}, s, h)

\* SqliteStore._update: its body reads the name `keys`, which is neither a
\* parameter nor a global of store.py, so evaluating the arguments of
\* executemany raises NameError before any statement runs.
Sqlite_update_outcome == "NameError"

\* SqliteStore.get_token_counts: SELECT max(0, spam), max(0, ham) ... WHERE token = w
Sqlite_get_token_counts(d, tokens) ==
    [w \in {t \in tokens : t \in DOMAIN d} |-> <<Max(0, d[w].spam), Max(0, d[w].ham)>>]

\* SqliteStore.get_nspam_nham
Sqlite_get_nspam_nham(d) ==
    LET counts == Sqlite_get_token_counts(d, {DOC_COUNT_TOKEN})
    IN IF DOC_COUNT_TOKEN \in DOMAIN counts THEN counts[DOC_COUNT_TOKEN] ELSE <<0, 0>>

SqliteStore_add_spam(tokens) ==
    db' = Sqlite_upsert_row(Sqlite_upsert(db, tokens, 1, 0), DOC_COUNT_TOKEN, 1, 0)

SqliteStore_add_ham(tokens) ==
    db' = Sqlite_upsert_row(Sqlite_upsert(db, tokens, 0, 1), DOC_COUNT_TOKEN, 0, 1)

\* _update raises first, so the upsert of the sentinel row is never reached.
SqliteStore_remove_spam(tokens) ==
    db' = IF Sqlite_update_outcome = "ok"
          THEN Sqlite_upsert_row(db, DOC_COUNT_TOKEN, -1, 0) ELSE db

SqliteStore_remove_ham(tokens) ==
    db' = IF Sqlite_update_outcome = "ok"
          THEN Sqlite_upsert_row(db, DOC_COUNT_TOKEN, 0, -1) ELSE db

-----------------------------------------------------------------------------
(* SpecEquiv: one client applies the same call to a HeapStore and to a     *)
(* SqliteStore, both created empty, and goes on after an exception.         *)

EquivCall(op, tokens, heap_outcome, sqlite_outcome) ==
    /\ nops < MaxEquivOps
    /\ nops' = nops + 1
    /\ ret' = [op |-> op, tokens |-> tokens, heap |-> heap_outcome, sqlite |-> sqlite_outcome]
    /\ UNCHANGED <<hist, max_discriminators, trainers>>

BothAddSpam ==
    \E T \in SUBSET Tokens :
        HeapStore_add_spam(T) /\ SqliteStore_add_spam(T) /\ EquivCall("add_spam", T, "ok", "ok")

BothAddHam ==
    \E T \in SUBSET Tokens :
        HeapStore_add_ham(T) /\ SqliteStore_add_ham(T) /\ EquivCall("add_ham", T, "ok", "ok")

BothRemoveSpam ==
    \E T \in SUBSET Tokens :
        /\ HeapStore_remove_spam(T)
        /\ SqliteStore_remove_spam(T)
        /\ EquivCall("remove_spam", T, "ok", Sqlite_update_outcome)

BothRemoveHam ==
    \E T \in SUBSET Tokens :
        /\ HeapStore_remove_ham(T)
        /\ SqliteStore_remove_ham(T)
        /\ EquivCall("remove_ham", T, "ok", Sqlite_update_outcome)

NextEquiv == BothAddSpam \/ BothAddHam \/ BothRemoveSpam \/ BothRemoveHam

SpecEquiv == InitStore /\ [][NextEquiv]_vars

\* C5: after the same sequence of calls on both stores, every call ended the
\* same way in both, and get_nspam_nham() and get_token_counts(T) agree for
\* every token set T.
C5_StoresAgree ==
    /\ ret.op # "none" => ret.heap = ret.sqlite
    /\ Heap_get_nspam_nham(HeapState) = Sqlite_get_nspam_nham(db)
    /\ \A T \in SUBSET Tokens :
          Heap_get_token_counts(HeapState, T) = Sqlite_get_token_counts(db, T)

-----------------------------------------------------------------------------
(* SpecConc: several trainers call SqliteStore.add_spam / add_ham on one   *)
(* table at once. Each statement of executemany is one atomic step; a       *)
(* trainer upserts its tokens in any order, then the sentinel row.          *)

Trainer(op, tokens) == [op |-> op, tokens |-> tokens, pending |-> tokens, pc |-> "tokens"]

InitConc ==
    /\ HeapInit
    /\ db = EmptyDict
    /\ hist = <<>>
    /\ nops = 0
    /\ ret = NoRet
    /\ max_discriminators = 150
    /\ trainers \in [1..NTrainers ->
          {Trainer(op, T) : op \in {"add_spam", "add_ham"}, T \in SUBSET Tokens}]

SpamInc(op) == IF op = "add_spam" THEN 1 ELSE 0

HamInc(op) == IF op = "add_ham" THEN 1 ELSE 0

\* one statement of self._upsert(tokens, ...)
UpsertToken(i) ==
    /\ trainers[i].pc = "tokens"
    /\ \E t \in trainers[i].pending :
        /\ db' = Sqlite_upsert_row(db, t, SpamInc(trainers[i].op), HamInc(trainers[i].op))
        /\ trainers' = [trainers EXCEPT ![i].pending = @ \ {t}]
    /\ UNCHANGED <<spam, ham, nspam, nham, hist, nops, ret, max_discriminators>>

\* executemany has no token left: go on to the second _upsert
TokensDone(i) ==
    /\ trainers[i].pc = "tokens"
    /\ trainers[i].pending = {}
    /\ trainers' = [trainers EXCEPT ![i].pc = "doc"]
    /\ UNCHANGED <<spam, ham, nspam, nham, db, hist, nops, ret, max_discriminators>>

\* self._upsert([self.DOC_COUNT_TOKEN], ...)
UpsertDocCount(i) ==
    /\ trainers[i].pc = "doc"
    /\ db' = Sqlite_upsert_row(db, DOC_COUNT_TOKEN, SpamInc(trainers[i].op), HamInc(trainers[i].op))
    /\ trainers' = [trainers EXCEPT ![i].pc = "done"]
    /\ UNCHANGED <<spam, ham, nspam, nham, hist, nops, ret, max_discriminators>>

NextConc == \E i \in 1..NTrainers : UpsertToken(i) \/ TokensDone(i) \/ UpsertDocCount(i)

SpecConc == InitConc /\ [][NextConc]_vars

AllDone == \A i \in 1..NTrainers : trainers[i].pc = "done"

Calls(op) == {i \in 1..NTrainers : trainers[i].op = op}

CallsWith(op, t) == {i \in Calls(op) : t \in trainers[i].tokens}

RowOf(d, t) == IF t \in DOMAIN d THEN d[t] ELSE Row(0, 0)

\* C6: once all concurrent add_spam / add_ham calls have finished, each
\* token's spam (ham) column equals the number of add_spam (add_ham) calls
\* whose token set held it, and the sentinel row holds the number of add_spam
\* and add_ham calls, whatever the interleaving.
C6_NoLostUpdate ==
    AllDone =>
        /\ \A t \in Tokens :
              RowOf(db, t) = Row(Cardinality(CallsWith("add_spam", t)),
                                Cardinality(CallsWith("add_ham", t)))
        /\ RowOf(db, DOC_COUNT_TOKEN) = Row(Cardinality(Calls("add_spam")),
                                            Cardinality(Calls("add_ham")))

\* Two trainers finished that both trained the same token as spam.
C6_Witness ==
    /\ AllDone
    /\ \E t \in Tokens : Cardinality(CallsWith("add_spam", t)) >= 2

-----------------------------------------------------------------------------
(* Floats as exact rationals <<n, d>>, d > 0, in lowest terms. Rounding is   *)
(* not modelled: two floats compare as the exact values they stand for.     *)

Abs(x) == IF x < 0 THEN -x ELSE x

RECURSIVE Gcd(_, _)
Gcd(a, b) == IF b = 0 THEN a ELSE Gcd(b, a % b)

Rat(n, d) ==
    LET g == Gcd(Abs(n), Abs(d))
        sgn == IF d < 0 THEN -1 ELSE 1
    IN <<(sgn * n) \div g, (sgn * d) \div g>>

RAdd(a, b) == Rat(a[1] * b[2] + b[1] * a[2], a[2] * b[2])

RSub(a, b) == Rat(a[1] * b[2] - b[1] * a[2], a[2] * b[2])

RMul(a, b) == Rat(a[1] * b[1], a[2] * b[2])

\* b is not zero
RDiv(a, b) == Rat(a[1] * b[2], a[2] * b[1])

RLess(a, b) == a[1] * b[2] < b[1] * a[2]

RAbs(a) == <<Abs(a[1]), a[2]>>

RInt(k) == <<k, 1>>

-----------------------------------------------------------------------------
(* Classifier: configuration and scoring *)

unknown_token_prob == <<1, 2>>

unknown_token_strength == <<9, 20>>

minimum_prob_strength == <<1, 10>>

Half == <<1, 2>>

Raise(e) == [outcome |-> e]

Return(v) == [outcome |-> "ok", value |-> v]

\* x or 1.0
OrOne(x) == IF x = 0 THEN 1 ELSE x

\* Classifier.probability(spamcount, hamcount) on store state st (asserts on)
probability(st, sc, hc) ==
    LET n_spam == OrOne(Heap_get_nspam_nham(st)[1])
        n_ham == OrOne(Heap_get_nspam_nham(st)[2])
    IN IF ~(hc <= n_ham) THEN Raise("AssertionError")
       ELSE IF ~(sc <= n_spam) THEN Raise("AssertionError")
       ELSE LET hamratio == Rat(hc, n_ham)
                spamratio == Rat(sc, n_spam)
                den == RAdd(hamratio, spamratio)
            IN IF den[1] = 0 THEN Raise("ZeroDivisionError")
               ELSE LET prob == RDiv(spamratio, den)
                        S == unknown_token_strength
                        StimesX == RMul(S, unknown_token_prob)
                        n == hc + sc
                    IN Return(RDiv(RAdd(StimesX, RMul(RInt(n), prob)),
                                   RAdd(S, RInt(n))))

\* Classifier._worddistanceget: (abs(prob - 0.5), prob, token); a tuple of
\* counts is truthy whatever it holds, only a missing entry is not.
worddistanceget(st, counts, token) ==
    LET r == IF token \in DOMAIN counts
             THEN probability(st, counts[token][1], counts[token][2])
             ELSE Return(unknown_token_prob)
    IN IF r.outcome # "ok" THEN r
       ELSE Return(<<RAbs(RSub(r.value, Half)), r.value, token>>)

Rank(token) == CHOOSE i \in 1..Len(TokenOrder) : TokenOrder[i] = token

\* Python's order on the tuples (distance, prob, token)
TupLess(a, b) ==
    \/ RLess(a[1], b[1])
    \/ a[1] = b[1] /\ RLess(a[2], b[2])
    \/ a[1] = b[1] /\ a[2] = b[2] /\ Rank(a[3]) < Rank(b[3])

\* list.sort() of distinct tuples: ascending
Sorted(S) ==
    [i \in 1..Cardinality(S) |->
        CHOOSE x \in S : Cardinality({y \in S : TupLess(y, x)}) = i - 1]

\* seq[:k]
Slice(seq, k) == SubSeq(seq, 1, IF Len(seq) < k THEN Len(seq) ELSE k)

\* The tuples of the tokens that pass the strength filter
Strong(tups) == {x \in tups : ~RLess(x[1], minimum_prob_strength)}

getclues_no_cap(st, tokens, maxd) ==
    LET toks == set(tokens)
        counts == Heap_get_token_counts(st, toks)
        res == [t \in toks |-> worddistanceget(st, counts, t)]
        failed == {t \in toks : res[t].outcome # "ok"}
        clues == Sorted(Strong({res[t].value : t \in toks}))
    IN IF failed # {} THEN {res[t] : t \in failed}
       ELSE {Return([i \in 1..Len(clues) |-> <<clues[i][2], clues[i][3]>>])}

\* Classifier._getclues(tokens) with max_discriminators = maxd: the set of
\* its possible results. The loop visits set(tokens) in hash order, so when
\* several tokens make probability() raise, any of them may be the first.
getclues(st, tokens, maxd) ==
    LET toks == set(tokens)
        counts == Heap_get_token_counts(st, toks)
        res == [t \in toks |-> worddistanceget(st, counts, t)]
        failed == {t \in toks : res[t].outcome # "ok"}
        clues == Slice(Sorted(Strong({res[t].value : t \in toks})), maxd)
    IN IF failed # {} THEN {res[t] : t \in failed}
       ELSE {Return([i \in 1..Len(clues) |-> <<clues[i][2], clues[i][3]>>])}

\* The product of the factors is > 0: none is zero, the negatives pair up.
ProductPositive(factors) ==
    /\ \A i \in 1..Len(factors) : factors[i][1] # 0
    /\ Cardinality({i \in 1..Len(factors) : factors[i][1] < 0}) % 2 = 0

\* clues.sort(key=lambda a: a[1]) on (token, prob) pairs: stable, ascending
SortByProb(ev) ==
    [k \in 1..Len(ev) |->
        ev[CHOOSE i \in 1..Len(ev) :
              Cardinality({j \in 1..Len(ev) :
                  RLess(ev[j][2], ev[i][2]) \/ (ev[j][2] = ev[i][2] /\ j < i)}) = k - 1]]

\* The statistics S and H are values of chi2Q, which the model does not
\* compute; with no clue they are log(1.0) = 0.0.
Statistic(n) == IF n = 0 THEN <<0, 1>> ELSE "chi2"

\* Classifier.spamprob(tokens, evidence=True): the set of its possible
\* results; the value is the evidence list (the score is not modelled).
\* math.log raises ValueError unless the product it is given is > 0.
spamprob(st, tokens, maxd) ==
    {IF r.outcome # "ok" THEN r
     ELSE LET clues == r.value
              n == Len(clues)
              Sfactors == [i \in 1..n |-> RSub(RInt(1), clues[i][1])]
              Hfactors == [i \in 1..n |-> clues[i][1]]
          IN IF ~ProductPositive(Sfactors) \/ ~ProductPositive(Hfactors)
             THEN Raise("ValueError")
             ELSE Return(<<<<"*H*", Statistic(n)>>, <<"*S*", Statistic(n)>>>>
                         \o SortByProb([i \in 1..n |-> <<clues[i][2], clues[i][1]>>]))
     : r \in getclues(st, tokens, maxd)}

-----------------------------------------------------------------------------
(* SpecScore: a HeapStore is trained by a few calls and then the           *)
(* Classifier is asked for a probability, for clues or for a score. The     *)
(* scoring calls only read the store, so a run ends with the first of them. *)

ScoreTrainCall ==
    /\ ret = NoRet
    /\ nops < MaxScoreOps
    /\ nops' = nops + 1
    /\ ret' = NoRet
    /\ UNCHANGED <<db, hist, max_discriminators, trainers>>

TrainSpam == \E T \in SUBSET Tokens : HeapStore_add_spam(T) /\ ScoreTrainCall

TrainHam == \E T \in SUBSET Tokens : HeapStore_add_ham(T) /\ ScoreTrainCall

UntrainSpam == \E T \in SUBSET Tokens : HeapStore_remove_spam(T) /\ ScoreTrainCall

UntrainHam == \E T \in SUBSET Tokens : HeapStore_remove_ham(T) /\ ScoreTrainCall

ScoreCall(r) ==
    /\ ret = NoRet
    /\ ret' = r
    /\ UNCHANGED <<spam, ham, nspam, nham, db, hist, nops, max_discriminators, trainers>>

\* probability() is called with the counts of a stored token, as
\* _worddistanceget does, or with (0, 0).
ProbabilityArgs ==
    {<<0, 0>>} \cup {Heap_get_token_counts(HeapState, Tokens)[t] : t \in Entries(HeapState)}

CallProbability ==
    \E a \in ProbabilityArgs :
        ScoreCall([op |-> "probability", spamcount |-> a[1], hamcount |-> a[2],
                   result |-> probability(HeapState, a[1], a[2])])

CallGetClues ==
    \E tokens \in Streams :
        \E r \in getclues(HeapState, tokens, max_discriminators) :
            ScoreCall([op |-> "_getclues", tokens |-> tokens, result |-> r])

CallSpamProb ==
    \E tokens \in Streams :
        \E r \in spamprob(HeapState, tokens, max_discriminators) :
            ScoreCall([op |-> "spamprob", tokens |-> tokens, result |-> r])

InitScore ==
    /\ HeapInit
    /\ db = EmptyDict
    /\ hist = <<>>
    /\ nops = 0
    /\ ret = NoRet
    /\ max_discriminators \in 1..MaxDiscriminators
    /\ trainers = <<>>

NextScore ==
    \/ TrainSpam \/ TrainHam \/ UntrainSpam \/ UntrainHam
    \/ CallProbability \/ CallGetClues \/ CallSpamProb

SpecScore == InitScore /\ [][NextScore]_vars

\* C7: probability(0, 0) returns unknown_token_prob, without raising, in
\* every store state.
C7_NoEvidenceGivesPrior ==
    (ret.op = "probability" /\ ret.spamcount = 0 /\ ret.hamcount = 0)
        => (ret.result.outcome = "ok" /\ ret.result.value = unknown_token_prob)

\* The store holds a token with these counts.
Stored(sc, hc) ==
    \E t \in Entries(HeapState) : Heap_get_token_counts(HeapState, Tokens)[t] = <<sc, hc>>

\* C9: for a stored token whose hamcount exceeds the stored nham or whose
\* spamcount exceeds the stored nspam (a stored total of 0 included),
\* probability(spamcount, hamcount) raises instead of returning a value.
C9_CorruptCountsRaise ==
    (/\ ret.op = "probability"
     /\ Stored(ret.spamcount, ret.hamcount)
     /\ (ret.hamcount > nham \/ ret.spamcount > nspam))
        => ret.result.outcome # "ok"

\* The (distance, prob, token) tuple of a token in the current store.
Tup(t) == worddistanceget(HeapState, Heap_get_token_counts(HeapState, {t}), t).value

\* C4: _getclues returns, of the distinct tokens at distance >=
\* minimum_prob_strength from 0.5, the max_discriminators farthest from 0.5:
\* when more tokens pass the filter than are kept, no token left out is
\* strictly farther from 0.5 than a token returned.
C4_StrongestKept ==
    (ret.op = "_getclues" /\ ret.result.outcome = "ok") =>
        LET strong == {x[3] : x \in Strong({Tup(t) : t \in set(ret.tokens)})}
            kept == {ret.result.value[i][2] : i \in 1..Len(ret.result.value)}
        IN /\ kept \subseteq strong
           /\ Cardinality(strong) > max_discriminators =>
                /\ Cardinality(kept) = max_discriminators
                /\ \A u \in strong \ kept : \A v \in kept : ~RLess(Tup(v)[1], Tup(u)[1])

IsEvidence(r) == r.op = "spamprob" /\ r.tokens # <<>> /\ r.result.outcome = "ok"

\* C8: the evidence list spamprob returns for a non-empty stream has, after
\* the two leading entries "*H*" and "*S*", at most max_discriminators
\* entries, each with a probability at least minimum_prob_strength from 0.5.
C8_EvidenceBounded ==
    IsEvidence(ret) =>
        LET ev == ret.result.value IN
        /\ Len(ev) >= 2
        /\ ev[1][1] = "*H*"
        /\ ev[2][1] = "*S*"
        /\ Len(ev) - 2 <= max_discriminators
        /\ \A i \in 3..Len(ev) :
              ~RLess(RAbs(RSub(ev[i][2], Half)), minimum_prob_strength)

\* An evidence list cut to max_discriminators: more tokens of the stream pass
\* the filter than the list holds.
C8_Witness ==
    /\ IsEvidence(ret)
    /\ Len(ret.result.value) - 2 = max_discriminators
    /\ Cardinality(Strong({Tup(t) : t \in set(ret.tokens)})) > max_discriminators

=============================================================================
